---- MODULE Spec2Model ----
(***************************************************************************)
(* Model of FinDash.py: a Streamlit script that fetches per-ticker facts   *)
(* from yfinance, derives sales growth, leverage and valuation metrics     *)
(* (fetch_company_data), formats them (format_value) and shows a           *)
(* transposed comparison table.                                            *)
(*                                                                         *)
(* Floats are modelled as exact rationals plus the IEEE specials the code  *)
(* can produce (nan, +inf, -0.0).  Display strings are sequences of        *)
(* one-character strings, so that "Inf", "inf%" and "N/A" are different.   *)
(***************************************************************************)
EXTENDS Integers, Sequences, FiniteSets, TLC

\* ------------------------------------------------------------------ bounds
\* Longest annual revenue series the provider returns.
MaxRevLen == 5
\* Largest raw revenue / debt / equity figure (smallest is MinVal).
MaxVal == 2
\* Longest list of requested tickers.
MaxTickers == 2
\* Resolution of the modelled fifth root: results are multiples of 1/RootScale.
RootScale == 10
\* Raw figures range over -MaxNeg..MaxVal.
MaxNeg == 1

\* ------------------------------------------------------------------ floats
\* A float: k is "num" (the rational n/d, d > 0, in lowest terms), "nan",
\* "inf" or "negzero"; "absent" is a key missing from a dict (None).
NaN == [k |-> "nan", n |-> 0, d |-> 1]
Inf == [k |-> "inf", n |-> 0, d |-> 1]
NegZero == [k |-> "negzero", n |-> 0, d |-> 1]
Absent == [k |-> "absent", n |-> 0, d |-> 1]

Abs(x) == IF x < 0 THEN -x ELSE x

RECURSIVE GCD(_, _)
GCD(a, b) == IF b = 0 THEN a ELSE GCD(b, a % b)

Num(n, d) ==
    LET g == GCD(Abs(n), Abs(d))
        s == IF d < 0 THEN -1 ELSE 1
    IN [k |-> "num", n |-> s * (n \div g), d |-> s * (d \div g)]

R(n) == Num(n, 1)

IsNum(v) == v.k = "num"
\* 0.0 and -0.0 compare equal to 0; nan compares unequal to everything.
IsZero(v) == v.k = "negzero" \/ (v.k = "num" /\ v.n = 0)
\* v > 0
Positive(v) == v.k = "inf" \/ (v.k = "num" /\ v.n > 0)
\* v < 0
Negative(v) == v.k = "num" /\ v.n < 0
\* numerator of v read as a rational (negative zero is zero)
NumOf(v) == IF v.k = "num" THEN v.n ELSE 0
DenOf(v) == IF v.k = "num" THEN v.d ELSE 1
IsFinite(v) == v.k = "num" \/ v.k = "negzero"
\* pd.isna / pd.notna on a scalar: None and nan are missing
isna(v) == v.k = "nan" \/ v.k = "absent"
notna(v) == ~isna(v)
\* Python truthiness of info.get(key): None and 0 are falsy, nan is truthy
Truthy(v) == v.k # "absent" /\ ~IsZero(v)

\* a + b
Add(a, b) ==
    IF a.k = "nan" \/ b.k = "nan" THEN NaN
    ELSE IF a.k = "inf" \/ b.k = "inf" THEN Inf
    ELSE IF a.k = "negzero" /\ b.k = "negzero" THEN NegZero
    ELSE Num(NumOf(a) * DenOf(b) + NumOf(b) * DenOf(a), DenOf(a) * DenOf(b))

\* a - b, b finite
Sub(a, b) ==
    IF a.k = "nan" \/ b.k = "nan" THEN NaN
    ELSE IF a.k = "inf" THEN Inf
    ELSE Num(NumOf(a) * DenOf(b) - NumOf(b) * DenOf(a), DenOf(a) * DenOf(b))

\* a * b for finite a, b
Mul(a, b) ==
    IF a.k = "nan" \/ b.k = "nan" THEN NaN
    ELSE Num(NumOf(a) * NumOf(b), DenOf(a) * DenOf(b))

\* a / b.  Every call site guards b != 0 (lines 53, 65, 100) or divides by
\* a literal (line 42), so only the nan divisor needs the IEEE rule here.
Div(a, b) ==
    IF a.k = "nan" \/ b.k = "nan" THEN NaN
    ELSE IF IsZero(b) THEN NaN
    ELSE IF a.k = "inf" THEN Inf
    ELSE IF IsZero(a)
         THEN IF (a.k = "negzero") # (NumOf(b) < 0) THEN NegZero ELSE R(0)
    ELSE Num(NumOf(a) * DenOf(b), DenOf(a) * NumOf(b))

Pow5(r) == r * r * r * r * r

\* q ** (1/5) on numpy floats: nan for a negative base (no complex result),
\* otherwise the fifth root, here truncated to a multiple of 1/RootScale.
FifthRoot(q) ==
    IF q.k = "nan" \/ Negative(q) THEN NaN
    ELSE IF q.k = "inf" THEN Inf
    ELSE IF IsZero(q) THEN R(0)
    ELSE LET r == CHOOSE x \in 0..(RootScale * (q.n + 1)) :
                     /\ Pow5(x) * q.d <= q.n * Pow5(RootScale)
                     /\ Pow5(x + 1) * q.d > q.n * Pow5(RootScale)
         IN Num(r, RootScale)

\* ----------------------------------------------------------------- strings
\* A string is a sequence of one-character strings.
NA == <<"N", "/", "A">>
InfStr == <<"I", "n", "f">>

DigitChar(i) == <<"0", "1", "2", "3", "4", "5", "6", "7", "8", "9">>[i + 1]

RECURSIVE Digits(_)
Digits(n) == IF n < 10 THEN <<DigitChar(n)>>
             ELSE Digits(n \div 10) \o <<DigitChar(n % 10)>>

\* n with "," between groups of three digits (the "," format option)
RECURSIVE Grouped(_)
Grouped(n) ==
    IF n < 1000 THEN Digits(n)
    ELSE Grouped(n \div 1000) \o
         <<",", DigitChar((n % 1000) \div 100), DigitChar((n % 100) \div 10),
           DigitChar(n % 10)>>

\* n/d (n >= 0, d > 0) rounded to an integer, ties to even: how the format
\* mini-language rounds a float whose value is exactly the rational
RoundHalfEven(n, d) ==
    LET q == n \div d
        r == n % d
    IN IF 2 * r > d THEN q + 1
       ELSE IF 2 * r = d THEN q + (q % 2)
       ELSE q

SignOf(v) == IF Negative(v) \/ v.k = "negzero" THEN <<"-">> ELSE <<>>

\* f"{v:.2f}" for a finite v
Fixed2(v) ==
    LET h == RoundHalfEven(Abs(NumOf(v)) * 100, DenOf(v))
    IN SignOf(v) \o Digits(h \div 100) \o
       <<".", DigitChar((h % 100) \div 10), DigitChar(h % 10)>>

\* f"{v:.2%}"
Percent2(v) ==
    IF v.k = "inf" THEN <<"i", "n", "f", "%">>
    ELSE LET h == RoundHalfEven(Abs(NumOf(v)) * 10000, DenOf(v))
         IN SignOf(v) \o Digits(h \div 100) \o
            <<".", DigitChar((h % 100) \div 10), DigitChar(h % 10), "%">>

\* f"${v:,.0f}B"
CurrencyB(v) ==
    IF v.k = "inf" THEN <<"$", "i", "n", "f", "B">>
    ELSE <<"$">> \o SignOf(v) \o
         Grouped(RoundHalfEven(Abs(NumOf(v)), DenOf(v))) \o <<"B">>

\* str(v): only the two spellings this model needs to tell apart
PyStr(v) ==
    IF v.k = "inf" THEN <<"i", "n", "f">>
    ELSE SignOf(v) \o Digits(Abs(NumOf(v))) \o <<"/">> \o Digits(DenOf(v))

\* format_value without the pd.isna test: a missing value prints as "nan"
format_value_NanText(value, metric_type) ==
    IF isna(value) THEN <<"n", "a", "n">>
    ELSE IF metric_type = "percent" THEN Percent2(value)
    ELSE IF metric_type = "currency_billion" THEN CurrencyB(value)
    ELSE IF metric_type = "ratio"
         THEN IF value.k = "inf" THEN InfStr ELSE Fixed2(value)
    ELSE PyStr(value)

\* format_value(value, metric_type)
format_value(value, metric_type) ==
    IF isna(value) THEN NA
    ELSE IF metric_type = "percent" THEN Percent2(value)
    ELSE IF metric_type = "currency_billion" THEN CurrencyB(value)
    ELSE IF metric_type = "ratio"
         THEN IF value.k = "inf" THEN InfStr ELSE Fixed2(value)
    ELSE PyStr(value)

\* ------------------------------------------------------- provider records
\* A row of a statement frame: in_index says whether the label is in
\* frame.index, vals are the row's cells, most recent fiscal year first.
NoRow == [in_index |-> FALSE, vals |-> <<>>]
Row(vs) == [in_index |-> TRUE, vals |-> vs]
\* 'label' in frame.index and not frame.loc['label'].empty
RowAvailable(row) == row.in_index /\ Len(row.vals) > 0
\* frame.loc['label'].iloc[0]
Latest(row) == row.vals[1]

\* messages passed to st.info inside fetch_company_data
Msg(kind, ticker_symbol) == [kind |-> kind, ticker |-> ticker_symbol]

\* the return value None (also: no table built yet)
None == [k |-> "none", n |-> 0, d |-> 1]

\* the defaults with PEG Ratio started at 0 instead of nan
DefaultData_ZeroPEG(ticker_symbol) ==
    [Company |-> ticker_symbol] @@
    ("Industry" :> NA) @@
    ("Market Cap (B)" :> NaN) @@
    ("1Yr Sales Growth" :> NaN) @@
    ("5Yr Sales Growth" :> NaN) @@
    ("Debt to Equity" :> NaN) @@
    ("PEG Ratio" :> R(0)) @@
    ("Trailing P/E" :> NaN)

\* data = {...}: the defaults of every metric
DefaultData(ticker_symbol) ==
    [Company |-> ticker_symbol] @@
    ("Industry" :> NA) @@
    ("Market Cap (B)" :> NaN) @@
    ("1Yr Sales Growth" :> NaN) @@
    ("5Yr Sales Growth" :> NaN) @@
    ("Debt to Equity" :> NaN) @@
    ("PEG Ratio" :> NaN) @@
    ("Trailing P/E" :> NaN)

\* not info or not info.get('longName') or 'regularMarketPrice' not in info
InfoInvalid(info) ==
    \/ (info.longName = "" /\ info.regularMarketPrice = Absent
        /\ info.industry = <<>> /\ info.marketCap = Absent
        /\ info.trailingPE = Absent /\ info.trailingEps = Absent
        /\ info.fiveYearGrowthEstimate = Absent)
    \/ info.longName = ""
    \/ info.regularMarketPrice = Absent

\* info.get("industry", "N/A")
IndustryOf(info) == IF info.industry = <<>> THEN NA ELSE info.industry

\* if info.get("marketCap"): info["marketCap"] / 1_000_000_000
MarketCapOf(info, dflt) ==
    IF Truthy(info.marketCap) THEN Div(info.marketCap, R(1000000000)) ELSE dflt

\* Trailing P/E with a price / eps fallback guarded by eps > 0
TrailingPEOf_PriceOverEps(info, dflt) ==
    IF Truthy(info.trailingPE) THEN info.trailingPE
    ELSE IF IsNum(info.regularMarketPrice) /\ IsNum(info.trailingEps)
            /\ Positive(info.trailingEps)
         THEN Div(info.regularMarketPrice, info.trailingEps)
    ELSE dflt

\* Trailing P/E with a price / eps fallback that only avoids eps = 0
TrailingPEOf_DividesByAnyEps(info, dflt) ==
    IF Truthy(info.trailingPE) THEN info.trailingPE
    ELSE IF IsNum(info.regularMarketPrice) /\ IsNum(info.trailingEps)
            /\ ~IsZero(info.trailingEps)
         THEN Div(info.regularMarketPrice, info.trailingEps)
    ELSE dflt

\* if info.get("trailingPE"): data["Trailing P/E"] = info["trailingPE"]
TrailingPEOf(info, dflt) ==
    IF Truthy(info.trailingPE) THEN info.trailingPE ELSE dflt

\* 1-Year Sales Growth: the value stored and the messages emitted
SalesGrowth1YrOf(revenues, ticker_symbol, dflt) ==
    IF Len(revenues) >= 2 /\ ~IsZero(revenues[2])
    THEN [val |-> Div(Sub(revenues[1], revenues[2]), revenues[2]), msgs |-> <<>>]
    ELSE [val |-> dflt, msgs |-> <<Msg("not_enough_1yr", ticker_symbol)>>]

\* 5-Year Sales Growth whose elif forgets "and revenue_5_years_ago == 0"
SalesGrowth5YrOf_InfForAnyBase(revenues, ticker_symbol, dflt) ==
    IF Len(revenues) >= 5
    THEN LET latest_revenue == revenues[1]
             revenue_5_years_ago == revenues[5]
         IN IF Positive(revenue_5_years_ago)
            THEN [val |-> Sub(FifthRoot(Div(latest_revenue, revenue_5_years_ago)), R(1)),
                  msgs |-> <<>>]
            ELSE IF Positive(latest_revenue)
            THEN [val |-> Inf, msgs |-> <<>>]
            ELSE [val |-> dflt, msgs |-> <<Msg("zero_or_negative_5yr", ticker_symbol)>>]
    ELSE [val |-> dflt, msgs |-> <<Msg("not_enough_5yr", ticker_symbol)>>]

\* 5-Year Sales Growth (CAGR): the value stored and the messages emitted
SalesGrowth5YrOf(revenues, ticker_symbol, dflt) ==
    IF Len(revenues) >= 5
    THEN LET latest_revenue == revenues[1]
             revenue_5_years_ago == revenues[5]
         IN IF Positive(revenue_5_years_ago)
            THEN [val |-> Sub(FifthRoot(Div(latest_revenue, revenue_5_years_ago)), R(1)),
                  msgs |-> <<>>]
            ELSE IF Positive(latest_revenue) /\ IsZero(revenue_5_years_ago)
            THEN [val |-> Inf, msgs |-> <<>>]
            ELSE [val |-> dflt, msgs |-> <<Msg("zero_or_negative_5yr", ticker_symbol)>>]
    ELSE [val |-> dflt, msgs |-> <<Msg("not_enough_5yr", ticker_symbol)>>]

\* if 'Total Revenue' in financials.index: ... else: st.info(...)
SalesGrowthOf(financials, ticker_symbol, dflt1, dflt5) ==
    IF financials["Total Revenue"].in_index
    THEN LET revenues == financials["Total Revenue"].vals
             g1 == SalesGrowth1YrOf(revenues, ticker_symbol, dflt1)
             g5 == SalesGrowth5YrOf(revenues, ticker_symbol, dflt5)
         IN [g1 |-> g1.val, g5 |-> g5.val, msgs |-> g1.msgs \o g5.msgs]
    ELSE [g1 |-> dflt1, g5 |-> dflt5, msgs |-> <<Msg("no_revenue", ticker_symbol)>>]

\* total_equity and its message
TotalEquityOf(balance_sheet, ticker_symbol) ==
    IF RowAvailable(balance_sheet["Total Stockholder Equity"])
    THEN [val |-> Latest(balance_sheet["Total Stockholder Equity"]), msgs |-> <<>>]
    ELSE [val |-> NaN, msgs |-> <<Msg("no_equity", ticker_symbol)>>]

\* long_term_debt = ... if ... else 0
LongTermDebtOf(balance_sheet) ==
    IF RowAvailable(balance_sheet["Long Term Debt"])
    THEN Latest(balance_sheet["Long Term Debt"]) ELSE R(0)

\* short_term_debt = Current Debt, else Short Term Debt, else 0
ShortTermDebtOf(balance_sheet) ==
    IF RowAvailable(balance_sheet["Current Debt"])
    THEN Latest(balance_sheet["Current Debt"])
    ELSE IF RowAvailable(balance_sheet["Short Term Debt"])
         THEN Latest(balance_sheet["Short Term Debt"]) ELSE R(0)

\* total_debt: the sum when neither component is None, else nan and a message
TotalDebtOf(long_term_debt, short_term_debt, ticker_symbol) ==
    IF long_term_debt # None /\ short_term_debt # None
    THEN [val |-> Add(long_term_debt, short_term_debt), msgs |-> <<>>]
    ELSE [val |-> NaN, msgs |-> <<Msg("no_debt", ticker_symbol)>>]

\* Debt to Equity that leaves nan when equity is zero
DebtToEquityOf_ZeroEquityMissing(total_debt, total_equity) ==
    IF notna(total_debt) /\ notna(total_equity)
    THEN IF ~IsZero(total_equity)
         THEN Div(total_debt, total_equity)
         ELSE NaN
    ELSE NaN

\* Debt to Equity from total_debt and total_equity
DebtToEquityOf(total_debt, total_equity) ==
    IF notna(total_debt) /\ notna(total_equity)
    THEN IF ~IsZero(total_equity)
         THEN Div(total_debt, total_equity)
         ELSE Inf
    ELSE NaN

\* the body of the try block; exc says an exception left it
TryBody(ticker_symbol, resp) ==
    LET data == DefaultData(ticker_symbol)
    IN IF resp.info_exc
       THEN [ret |-> None, msgs |-> <<>>, exc |-> TRUE]
       ELSE IF InfoInvalid(resp.info)
       THEN [ret |-> None, msgs |-> <<>>, exc |-> FALSE]
       ELSE IF resp.statements_exc
       THEN [ret |-> None, msgs |-> <<>>, exc |-> TRUE]
       ELSE
         LET growth == SalesGrowthOf(resp.financials, ticker_symbol,
                                     data["1Yr Sales Growth"],
                                     data["5Yr Sales Growth"])
             equity == TotalEquityOf(resp.balance_sheet, ticker_symbol)
             debt == TotalDebtOf(LongTermDebtOf(resp.balance_sheet),
                                 ShortTermDebtOf(resp.balance_sheet), ticker_symbol)
         IN [ret |-> [data EXCEPT
                        !["Company"] = resp.info.longName,
                        !["Industry"] = IndustryOf(resp.info),
                        !["Market Cap (B)"] =
                            MarketCapOf(resp.info, data["Market Cap (B)"]),
                        !["Trailing P/E"] =
                            TrailingPEOf(resp.info, data["Trailing P/E"]),
                        !["1Yr Sales Growth"] = growth.g1,
                        !["5Yr Sales Growth"] = growth.g5,
                        !["Debt to Equity"] =
                            DebtToEquityOf(debt.val, equity.val)],
             msgs |-> growth.msgs \o equity.msgs \o debt.msgs,
             exc |-> FALSE]

\* fetch_company_data without the except clause
fetch_company_data_NoExcept(ticker_symbol, resp) == TryBody(ticker_symbol, resp)

\* fetch_company_data: except Exception turns every exception into None
fetch_company_data(ticker_symbol, resp) ==
    LET body == TryBody(ticker_symbol, resp)
    IN IF body.exc THEN [ret |-> None, msgs |-> body.msgs, exc |-> FALSE]
       ELSE body

\* ------------------------------------------------------------ the script
VARIABLES provider, tickers_to_fetch, pc, pos, ticker, company_data,
          comparison_data_list, invalid_tickers, temp_messages, st_info,
          cache, table

vars == <<provider, tickers_to_fetch, pc, pos, ticker, company_data,
          comparison_data_list, invalid_tickers, temp_messages, st_info,
          cache, table>>

Tickers == {"AAA", "BBB"}

\* what yfinance can answer for one symbol
Vals == {R(v) : v \in (0 - MaxNeg)..MaxVal} \cup {NaN}
RevSeqs == UNION {[1..n -> Vals] : n \in 0..MaxRevLen}
RowChoices == {NoRow, Row(<<>>)} \cup {Row(<<v>>) : v \in Vals}
Sheets == [{"Total Stockholder Equity", "Long Term Debt", "Current Debt",
            "Short Term Debt"} -> RowChoices]
Tech == <<"T", "e", "c", "h">>
Infos == [longName : {"", "Acme Corp"},
          regularMarketPrice : {Absent, R(100), R(150)},
          industry : {<<>>, Tech},
          marketCap : {Absent, R(0), R(500000000), R(1500000000)},
          trailingPE : {Absent, R(0), R(0 - 50), R(12)},
          trailingEps : {Absent, R(0 - 2), R(0), R(5)},
          fiveYearGrowthEstimate : {Absent, R(0), Num(15, 100)}]

BaseResp ==
    [info_exc |-> FALSE,
     statements_exc |-> FALSE,
     info |-> [longName |-> "Acme Corp", regularMarketPrice |-> R(100),
               industry |-> Tech, marketCap |-> R(1500000000),
               trailingPE |-> R(12), trailingEps |-> R(5),
               fiveYearGrowthEstimate |-> Num(15, 100)],
     financials |-> ("Total Revenue" :> Row(<<R(2), R(1)>>)),
     balance_sheet |-> ("Total Stockholder Equity" :> Row(<<R(2)>>)) @@
                       ("Long Term Debt" :> Row(<<R(1)>>)) @@
                       ("Current Debt" :> NoRow) @@
                       ("Short Term Debt" :> NoRow)]

\* a listed company with no statements and no optional info fields
SparseResp ==
    [BaseResp EXCEPT
       !.info = [longName |-> "Bare Inc", regularMarketPrice |-> R(150),
                 industry |-> <<>>, marketCap |-> Absent,
                 trailingPE |-> Absent, trailingEps |-> Absent,
                 fiveYearGrowthEstimate |-> Absent],
       !.financials = ("Total Revenue" :> NoRow),
       !.balance_sheet = [l \in DOMAIN BaseResp.balance_sheet |-> NoRow]]

\* an unknown symbol: info comes back without longName
UnknownResp == [SparseResp EXCEPT !.info.longName = ""]

GrowthResps ==
    {[BaseResp EXCEPT !.financials = ("Total Revenue" :> row)] :
        row \in {NoRow} \cup {Row(rs) : rs \in RevSeqs}}
LeverageResps == {[BaseResp EXCEPT !.balance_sheet = bs] : bs \in Sheets}
ValuationResps == {[BaseResp EXCEPT !.info = inf] : inf \in Infos}
LoopResps == {BaseResp, SparseResp, UnknownResp,
              [BaseResp EXCEPT !.info_exc = TRUE],
              [BaseResp EXCEPT !.statements_exc = TRUE]}

TickerLists == UNION {[1..n -> Tickers] : n \in 0..MaxTickers}

Init ==
    /\ \/ /\ tickers_to_fetch = <<"AAA">>
          /\ \E r \in GrowthResps \cup LeverageResps \cup ValuationResps :
                provider = [t \in Tickers |-> IF t = "AAA" THEN r ELSE BaseResp]
       \/ /\ tickers_to_fetch \in TickerLists
          /\ provider \in [Tickers -> LoopResps]
    /\ pc = "start"
    /\ pos = 0
    /\ ticker = ""
    /\ company_data = None
    /\ comparison_data_list = <<>>
    /\ invalid_tickers = <<>>
    /\ temp_messages = <<>>
    /\ st_info = "original"
    /\ cache = <<>>
    /\ table = None

\* if tickers_to_fetch: ... st.info = capture_info_message
Start ==
    /\ pc = "start"
    /\ IF tickers_to_fetch # <<>>
       THEN /\ st_info' = "capture"
            /\ pc' = "fetching"
       ELSE /\ st_info' = st_info
            /\ pc' = "no_input"
    /\ UNCHANGED <<provider, tickers_to_fetch, pos, ticker, company_data,
                   comparison_data_list, invalid_tickers, temp_messages,
                   cache, table>>

\* @st.cache_data: a symbol seen before returns the stored value and the
\* function body (with its st.info calls) does not run
CachedFetch(ticker_symbol) ==
    IF ticker_symbol \in DOMAIN cache
    THEN [ret |-> cache[ticker_symbol], msgs |-> <<>>, exc |-> FALSE]
    ELSE fetch_company_data(ticker_symbol, provider[ticker_symbol])

\* one iteration of: for ticker in tickers_to_fetch
FetchTicker ==
    /\ pc = "fetching"
    /\ pos < Len(tickers_to_fetch)
    /\ LET t == tickers_to_fetch[pos + 1]
           call == CachedFetch(t)
       IN /\ ticker' = t
          /\ temp_messages' = temp_messages \o call.msgs
          /\ IF call.exc
             THEN /\ pc' = "crashed"
                  /\ UNCHANGED <<pos, company_data, comparison_data_list,
                                 invalid_tickers, cache>>
             ELSE /\ company_data' = call.ret
                  /\ cache' = (t :> call.ret) @@ cache
                  /\ IF call.ret # None
                     THEN /\ comparison_data_list' =
                                Append(comparison_data_list, call.ret)
                          /\ invalid_tickers' = invalid_tickers
                     ELSE /\ invalid_tickers' = Append(invalid_tickers, t)
                          /\ comparison_data_list' = comparison_data_list
                  /\ pos' = pos + 1
                  /\ pc' = pc
    /\ UNCHANGED <<provider, tickers_to_fetch, st_info, table>>

\* st.info = original_st_info, after the loop
RestoreInfo ==
    /\ pc = "fetching"
    /\ pos = Len(tickers_to_fetch)
    /\ st_info' = "original"
    /\ pc' = "fetched"
    /\ UNCHANGED <<provider, tickers_to_fetch, pos, ticker, company_data,
                   comparison_data_list, invalid_tickers, temp_messages,
                   cache, table>>

\* the keys of data in insertion order: the columns of pd.DataFrame(list)
DataColumns ==
    <<"Company", "Industry", "Market Cap (B)", "1Yr Sales Growth",
      "5Yr Sales Growth", "Debt to Equity", "PEG Ratio", "Trailing P/E">>

desired_order ==
    <<"Industry", "Market Cap (B)", "1Yr Sales Growth", "5Yr Sales Growth",
      "Debt to Equity", "PEG Ratio", "Trailing P/E">>

format_map ==
    ("1Yr Sales Growth" :> "percent") @@
    ("5Yr Sales Growth" :> "percent") @@
    ("Debt to Equity" :> "ratio") @@
    ("PEG Ratio" :> "ratio") @@
    ("Trailing P/E" :> "ratio") @@
    ("Market Cap (B)" :> "currency_billion")

Range(f) == {f[x] : x \in DOMAIN f}
InOrder(col) == col \in Range(desired_order)

\* df.set_index("Company"); [col for col in df.columns if col in desired_order]
existing_cols ==
    SelectSeq(SelectSeq(DataColumns, LAMBDA col : col # "Company"), InOrder)

\* for col, fmt_type in format_map.items(): apply format_value to the column
FormatCell(col, value) ==
    IF col \in DOMAIN format_map
    THEN format_value(value, format_map[col]) ELSE value

\* df_formatted.transpose(): metrics are the rows, companies the columns
Transposed(data_list) ==
    [index |-> existing_cols,
     columns |-> [c \in 1..Len(data_list) |-> data_list[c]["Company"]],
     cells |-> [r \in 1..Len(existing_cols) |->
                  [c \in 1..Len(data_list) |->
                     FormatCell(existing_cols[r], data_list[c][existing_cols[r]])]]]

\* if comparison_data_list: build and show the table, else warn
ShowTable ==
    /\ pc = "fetched"
    /\ IF comparison_data_list # <<>>
       THEN /\ table' = Transposed(comparison_data_list)
            /\ pc' = "shown"
       ELSE /\ table' = table
            /\ pc' = "no_data"
    /\ UNCHANGED <<provider, tickers_to_fetch, pos, ticker, company_data,
                   comparison_data_list, invalid_tickers, temp_messages,
                   st_info, cache>>

Next == Start \/ FetchTicker \/ RestoreInfo \/ ShowTable

Spec == Init /\ [][Next]_vars

TypeOK ==
    /\ pc \in {"start", "no_input", "fetching", "crashed", "fetched",
               "shown", "no_data"}
    /\ pos \in 0..Len(tickers_to_fetch)
    /\ st_info \in {"original", "capture"}

\* ------------------------------------------------------------ properties
\* The call fetch_company_data(ticker) has returned a data dict.
Fetched == pc # "crashed" /\ ticker # "" /\ company_data # None
\* ... and the table holding it (as its last column) has been built.
Shown == Fetched /\ pc = "shown"

RawInfo == provider[ticker].info
RawSheet == provider[ticker].balance_sheet
RawRevenue == provider[ticker].financials["Total Revenue"]
NotesFor(t) == {temp_messages[j].kind : j \in {x \in DOMAIN temp_messages :
                                                 temp_messages[x].ticker = t}}

RowIndex(label) == CHOOSE r \in DOMAIN table.index : table.index[r] = label
\* the display string of the current ticker's metric
ShownCell(label) == table.cells[RowIndex(label)][Len(comparison_data_list)]

\* raw balance-sheet readings, as the claims name them
HasRow(label) == RowAvailable(RawSheet[label])
Cell0(label) == RawSheet[label].vals[1]
NoDebtRows == ~HasRow("Long Term Debt") /\ ~HasRow("Current Debt")
              /\ ~HasRow("Short Term Debt")
DebtRowsNumeric ==
    \A l \in {"Long Term Debt", "Current Debt", "Short Term Debt"} :
        HasRow(l) => IsNum(Cell0(l))
\* long-term plus short-term debt, a missing component counting as zero
DebtSum ==
    (IF HasRow("Long Term Debt") THEN Cell0("Long Term Debt").n ELSE 0) +
    (IF HasRow("Current Debt") THEN Cell0("Current Debt").n
     ELSE IF HasRow("Short Term Debt") THEN Cell0("Short Term Debt").n ELSE 0)
EquityNumeric == HasRow("Total Stockholder Equity")
                 /\ IsNum(Cell0("Total Stockholder Equity"))
Equity == Cell0("Total Stockholder Equity").n

\* C1: when long-term and short-term debt are both absent from the balance
\* sheet, Debt to Equity is a missing value shown as "N/A", whatever equity
\* is: it is never a number or +Infinity.
C1_UnknownDebtIsMissing ==
    (Fetched /\ NoDebtRows) =>
        /\ isna(company_data["Debt to Equity"])
        /\ (pc = "shown" => ShownCell("Debt to Equity") = NA)

C3_InfiniteGrowthShownAsInf ==
    (Fetched /\ RawRevenue.in_index /\ Len(RawRevenue.vals) >= 5
       /\ RawRevenue.vals[5] = R(0) /\ Positive(RawRevenue.vals[1])) =>
        /\ company_data["5Yr Sales Growth"] = Inf
        /\ (pc = "shown" => ShownCell("5Yr Sales Growth") = InfStr)

\* raw valuation inputs, as the claims name them
Price == RawInfo.regularMarketPrice
Eps == RawInfo.trailingEps
GrowthEstimate == RawInfo.fiveYearGrowthEstimate
ProviderPE == RawInfo.trailingPE

\* C4 as stated: Trailing P/E is the provider's trailing P/E when present and
\* numeric; otherwise price / eps when both are present and eps > 0 (price
\* 150, eps 5 shows "30.00"); missing only when neither route is available.
C4_PEFallsBackToPriceOverEps ==
    Fetched =>
        LET pe == company_data["Trailing P/E"]
        IN IF IsNum(ProviderPE) THEN pe = ProviderPE
           ELSE IF IsNum(Price) /\ IsNum(Eps) /\ Eps.n > 0
           THEN /\ pe = Num(Price.n * Eps.d, Price.d * Eps.n)
                /\ (pc = "shown" /\ Price = R(150) /\ Eps = R(5)
                       => ShownCell("Trailing P/E") = <<"3", "0", ".", "0", "0">>)
           ELSE isna(pe)

\* C4 amended: Trailing P/E is the provider's trailing P/E when that field is
\* present and non-zero (12 shows "12.00"); in every other case it is a
\* missing value shown as "N/A", whatever price and EPS are.
C4_PEIsProviderValueOrMissing ==
    Fetched =>
        LET pe == company_data["Trailing P/E"]
        IN IF IsNum(ProviderPE) /\ ProviderPE.n # 0
           THEN /\ pe = ProviderPE
                /\ (pc = "shown" /\ ProviderPE = R(12)
                       => ShownCell("Trailing P/E") = <<"1", "2", ".", "0", "0">>)
           ELSE /\ isna(pe)
                /\ (pc = "shown" => ShownCell("Trailing P/E") = NA)

C4_Witness ==
    /\ Shown /\ ProviderPE = Absent /\ Price = R(150) /\ Eps = R(5)
    /\ ShownCell("Trailing P/E") = NA

\* C5 as stated: when EPS is zero or negative, Trailing P/E and PEG Ratio are
\* both missing and shown as "N/A", whatever the other fields hold (a
\* provider-supplied trailing P/E included).
C5_NonPositiveEpsGivesNoRatio ==
    (Fetched /\ IsNum(Eps) /\ Eps.n <= 0) =>
        /\ isna(company_data["Trailing P/E"])
        /\ isna(company_data["PEG Ratio"])
        /\ (pc = "shown" => /\ ShownCell("Trailing P/E") = NA
                            /\ ShownCell("PEG Ratio") = NA)

\* C5 amended: when EPS is zero or negative, PEG Ratio is missing ("N/A") and
\* Trailing P/E is never a quotient by EPS: it is the provider's own non-zero
\* trailing P/E passed through unchanged, or else missing ("N/A").
C5_NonPositiveEpsNeverDivided ==
    (Fetched /\ IsNum(Eps) /\ Eps.n <= 0) =>
        LET pe == company_data["Trailing P/E"]
        IN /\ isna(company_data["PEG Ratio"])
           /\ (pc = "shown" => ShownCell("PEG Ratio") = NA)
           /\ (~isna(pe) => pe = ProviderPE)
           /\ (~Truthy(ProviderPE) =>
                 /\ isna(pe)
                 /\ (pc = "shown" => ShownCell("Trailing P/E") = NA))

C5_Witness ==
    /\ Shown /\ Eps = R(0 - 2) /\ Price = R(100) /\ ProviderPE = Absent
    /\ ShownCell("Trailing P/E") = NA
    /\ ShownCell("PEG Ratio") = NA

\* C6 as stated: with price > 0, EPS > 0 and a growth estimate present and
\* > 0, PEG Ratio is the number (price / eps) / (estimate * 100).
C6_PEGComputedFromGrowth ==
    (Fetched /\ Positive(Price) /\ Positive(Eps) /\ Positive(GrowthEstimate)) =>
        company_data["PEG Ratio"] =
            Div(Div(Price, Eps), Mul(GrowthEstimate, R(100)))

\* C6 amended: PEG Ratio is a missing value, shown as "N/A", for every
\* record, those with price > 0, EPS > 0 and a positive growth estimate
\* included.
C6_PEGAlwaysMissing ==
    Fetched =>
        /\ isna(company_data["PEG Ratio"])
        /\ (pc = "shown" => ShownCell("PEG Ratio") = NA)

C6_Witness ==
    /\ Shown /\ Positive(Price) /\ Positive(Eps) /\ Positive(GrowthEstimate)
    /\ ShownCell("PEG Ratio") = NA

\* the revenue series as the claims read it (no row: the empty series)
Series == IF RawRevenue.in_index THEN RawRevenue.vals ELSE <<>>
SeriesNumeric == \A j \in DOMAIN Series : IsNum(Series[j])

\* C7: 5-Year Sales Growth is a finite number only when the series has
\* length >= 5 and its base (index 4) is > 0; for length < 5 it is missing
\* (not-enough-history note), and for length >= 5 with base < 0, or base = 0
\* and latest <= 0, it is missing with the zero-or-negative-base note: the
\* power is not evaluated.
C7_CagrNeedsPositiveBase ==
    Fetched =>
        LET g == company_data["5Yr Sales Growth"]
        IN /\ IsFinite(g) => (Len(Series) >= 5 /\ Positive(Series[5]))
           /\ Len(Series) < 5 =>
                 /\ isna(g)
                 /\ RawRevenue.in_index => "not_enough_5yr" \in NotesFor(ticker)
                 /\ "zero_or_negative_5yr" \notin NotesFor(ticker)
           /\ (Len(Series) >= 5 /\ IsNum(Series[1])
                 /\ (Negative(Series[5])
                       \/ (Series[5] = R(0) /\ Series[1].n <= 0))) =>
                 /\ isna(g)
                 /\ (pc = "shown" => ShownCell("5Yr Sales Growth") = NA)
                 /\ "zero_or_negative_5yr" \in NotesFor(ticker)
                 /\ "not_enough_5yr" \notin NotesFor(ticker)

C7_Witness ==
    /\ Shown /\ Len(Series) >= 5 /\ Negative(Series[5]) /\ Positive(Series[1])
    /\ isna(company_data["5Yr Sales Growth"])
    /\ "zero_or_negative_5yr" \in NotesFor(ticker)

\* C8: 1-Year Sales Growth is the number (revenue[0] - revenue[1]) /
\* revenue[1] exactly when the series has length >= 2 and revenue[1] # 0; a
\* series of length < 2 reports not-enough-history, and a zero revenue[1]
\* reports a zero base, which is not the not-enough-history outcome.
C8_ZeroBaseToldApart ==
    (Fetched /\ RawRevenue.in_index /\ SeriesNumeric) =>
        LET g == company_data["1Yr Sales Growth"]
        IN /\ IsFinite(g) <=> (Len(Series) >= 2 /\ Series[2].n # 0)
           /\ IsFinite(g) => NumOf(g) * Series[2].n
                               = (Series[1].n - Series[2].n) * DenOf(g)
           /\ Len(Series) < 2 => "not_enough_1yr" \in NotesFor(ticker)
           /\ (Len(Series) >= 2 /\ Series[2].n = 0) =>
                 "not_enough_1yr" \notin NotesFor(ticker)

\* the requested tickers whose provider answer makes the fetch fail
Failing(t) == \/ provider[t].info_exc
              \/ provider[t].statements_exc
              \/ provider[t].info.longName = ""
              \/ provider[t].info.regularMarketPrice = Absent
Succeeds(t) == ~Failing(t)
Requested(n) == SubSeq(tickers_to_fetch, 1, n)

\* C9: the grid has the metrics as rows in the fixed order Industry, Market
\* Cap, 1Yr Sales Growth, 5Yr Sales Growth, Debt to Equity, PEG Ratio,
\* Trailing P/E, one column per fetched entity in the order of the ticker
\* list, and every cell filled, with "N/A" where the entity has no value.
C9_GridShape ==
    pc = "shown" =>
        LET fetched == SelectSeq(tickers_to_fetch, Succeeds)
        IN /\ table.index = <<"Industry", "Market Cap (B)", "1Yr Sales Growth",
                              "5Yr Sales Growth", "Debt to Equity",
                              "PEG Ratio", "Trailing P/E">>
           /\ table.columns = [c \in 1..Len(fetched) |->
                                 provider[fetched[c]].info.longName]
           /\ \A r \in DOMAIN table.index :
                 /\ DOMAIN table.cells[r] = DOMAIN table.columns
                 /\ \A c \in DOMAIN table.columns :
                       /\ Len(table.cells[r][c]) > 0
                       /\ (r > 1 /\ isna(comparison_data_list[c][table.index[r]]))
                             => table.cells[r][c] = NA
                       /\ (r = 1 /\ provider[fetched[c]].info.industry = <<>>)
                             => table.cells[r][c] = NA

C9_Witness ==
    /\ pc = "shown"
    /\ table.columns = <<"Acme Corp", "Bare Inc">>
    /\ table.cells[1][1] = Tech
    /\ table.cells[2][1] = <<"$", "2", "B">>
    /\ table.cells[3][1] = <<"1", "0", "0", ".", "0", "0", "%">>
    /\ table.cells[5][1] = <<"0", ".", "5", "0">>
    /\ table.cells[7][1] = <<"1", "2", ".", "0", "0">>
    /\ \A r \in DOMAIN table.index : table.cells[r][2] = NA

\* C10: the loop handles every requested ticker once, in order; a failing
\* ticker (invalid symbol or exception, both a None result) never stops it
\* or changes another result: each ticker ends in exactly one of
\* comparison_data_list and invalid_tickers, their sizes sum to the number
\* requested, and st.info is the original function again.
C10_LoopHandlesEveryTicker ==
    /\ pc # "crashed"
    /\ pc \in {"fetching", "fetched", "shown", "no_data"} =>
          /\ invalid_tickers = SelectSeq(Requested(pos), Failing)
          /\ LET fetched == SelectSeq(Requested(pos), Succeeds)
             IN /\ Len(comparison_data_list) = Len(fetched)
                /\ \A c \in DOMAIN fetched :
                      comparison_data_list[c] =
                          TryBody(fetched[c], provider[fetched[c]]).ret
          /\ pos > 0 => ticker = tickers_to_fetch[pos]
    /\ pc \in {"fetched", "shown", "no_data"} =>
          /\ pos = Len(tickers_to_fetch)
          /\ Len(comparison_data_list) + Len(invalid_tickers)
                = Len(tickers_to_fetch)
          /\ st_info = "original"

C10_Witness ==
    /\ pc = "fetched"
    /\ Len(tickers_to_fetch) = 2
    /\ provider[tickers_to_fetch[1]].info_exc
    /\ invalid_tickers = <<tickers_to_fetch[1]>>
    /\ comparison_data_list # <<>>
    /\ st_info = "original"

====
